---- MODULE Spec2Model ----
(***************************************************************************)
(* A model of analyzeMOPS/io.py: the linkage diff engine                   *)
(* (_findNewLinesAndDeletedIndices), the linkage relation builder          *)
(* (_makeNewLinkageDataFrames), attachDatabases, and the stage ingestion   *)
(* that composes them over the AllTracklets ledger.                        *)
(*                                                                         *)
(* Text is modelled as sequences of one-character strings; a number        *)
(* printed into a text is one element holding its decimal form.  A file is *)
(* the sequence of its lines as readlines() returns them, each line ending *)
(* in NL.                                                                  *)
(***************************************************************************)
EXTENDS Integers, Sequences, FiniteSets, TLC

VARIABLES
    file1, file2,              \* the two files handed to the diff engine
    new_lines, new_line_nums, deleted_line_nums,   \* its three results
    pcDiff,                    \* "ready" before the call, "done" after it
    newLines, createdBy, idStart,      \* the arguments of the relation builder
    linkageMembers, allLinkages,       \* the two relations it returns
    pcBuild,                   \* "ready", then "done" (returned) or "failed" (raised)
    databases,                 \* the argument of attachDatabases
    attached_names,            \* the list it returns
    conAttached,               \* the ATTACH statements run on con: <<name, database>>
    warned,                    \* whether the truncation warning was printed
    pcAttach,                  \* "ready", then "done" (returned) or "failed" (raised)
    priorFile,                 \* the stage output ingested last (empty at first)
    AllTracklets,              \* the ledger: the rows of the AllTracklets table
    TrackletMembers,           \* the rows of the TrackletMembers table
    lineIds,                   \* for each line of priorFile, its row's ID (0: no row)
    stage,                     \* the tag of the stage ingested last (0 at first)
    ingestResult,              \* the outcome of the last ingestion
    schemaArgs,                \* the arguments <<database, outDir>> of a database build
    schemaKind,                \* which build was called: "tracklet" or "track"
    dbTables, dbViews,         \* the tables and the views the build created
    pcSchema,                  \* "ready", then "done" (returned) or "failed" (raised)
    readFile,                  \* the lines of the linkage file to be read
    readOffset, chunksize,     \* the ID offset and the chunk size of the read
    readKind,                  \* which reader was called: "tracks" or "tracklets"
    readMembers,               \* the member rows the reader wrote to the database
    pcRead                     \* "ready", then "done" (returned) or "failed" (raised)

diffVars == <<file1, file2, new_lines, new_line_nums, deleted_line_nums, pcDiff>>
buildVars == <<newLines, createdBy, idStart, linkageMembers, allLinkages, pcBuild>>

attachVars == <<databases, attached_names, conAttached, warned, pcAttach>>
ingestVars == <<priorFile, AllTracklets, TrackletMembers, lineIds, stage, ingestResult>>

schemaVars == <<schemaArgs, schemaKind, dbTables, dbViews, pcSchema>>
readVars == <<readFile, readOffset, chunksize, readKind, readMembers, pcRead>>

vars == <<diffVars, buildVars, attachVars, ingestVars, schemaVars, readVars>>

-----------------------------------------------------------------------------
(* Bounds of the model.                                                    *)
MaxOldLen == 4
MaxNewLen == 3
MaxBatch == 3
MaxIdStart == 2
MaxRequested == 12
MaxIngestLen == 2
MaxNameLen == 3
MaxReadLen == 4
MaxChunk == 3
MaxOffset == 2

-----------------------------------------------------------------------------
(* Characters and the sample lines the files are made of.                  *)
NL == "\n"
SP == " "

\* A linkage line as MOPS writes it: every member ID is followed by a space.
LineA == <<"1", SP, "2", SP, NL>>
\* A linkage line whose last member ID is followed directly by the newline.
LineB == <<"7", SP, "8", SP, "9", NL>>
\* A one-member line with no trailing space.
LineC == <<"9", NL>>

DiffLines == {LineA, LineB, LineC}

SeqsUpTo(S, n) == UNION {[1..k -> S] : k \in 0..n}
NonEmptySeqsUpTo(S, n) == UNION {[1..k -> S] : k \in 1..n}

Min(x, y) == IF x <= y THEN x ELSE y
Max(x, y) == IF x >= y THEN x ELSE y

RECURSIVE Concat(_)
\* The concatenation of a sequence of sequences.
Concat(ss) == IF ss = <<>> THEN <<>> ELSE Head(ss) \o Concat(Tail(ss))

-----------------------------------------------------------------------------
(* Python string operations used by the code.                              *)

IsSpace(c) == c \in {SP, NL, "\t"}

RECURSIVE SplitOnFrom(_, _, _)
\* s.split(sep) for a one-character sep, continued with the token `cur`
\* under construction: every separator ends a token, empty tokens are kept.
SplitOnFrom(s, sep, cur) ==
    IF s = <<>> THEN <<cur>>
    ELSE IF Head(s) = sep THEN <<cur>> \o SplitOnFrom(Tail(s), sep, <<>>)
    ELSE SplitOnFrom(Tail(s), sep, Append(cur, Head(s)))

SplitOn(s, sep) == SplitOnFrom(s, sep, <<>>)

RECURSIVE SplitWSFrom(_, _)
\* s.split() with no argument: runs of whitespace separate, no empty tokens.
SplitWSFrom(s, cur) ==
    IF s = <<>> THEN (IF cur = <<>> THEN <<>> ELSE <<cur>>)
    ELSE IF IsSpace(Head(s))
         THEN (IF cur = <<>> THEN <<>> ELSE <<cur>>) \o SplitWSFrom(Tail(s), <<>>)
         ELSE SplitWSFrom(Tail(s), Append(cur, Head(s)))

SplitWS(s) == SplitWSFrom(s, <<>>)

\* Python's s[lo:] and s[lo:hi] with 0-based lo and a negative hi counted
\* from the end.
SliceFrom(s, lo) == SubSeq(s, lo + 1, Len(s))
SliceDropLast(s, lo, k) == SubSeq(s, lo + 1, Len(s) - k)

\* int(t) of a text holding one printed number.
ParseInt(t) == CHOOSE n \in 0..(MaxOldLen + MaxNewLen + 2) : t = <<ToString(n)>>

-----------------------------------------------------------------------------
(* difflib.unified_diff(a, b, n=0), as the call at io.py:430 uses it.      *)

\* SequenceMatcher.find_longest_match(alo, ahi, blo, bhi), 0-based: the
\* longest block a[i:i+k] = b[j:j+k] inside the two ranges; among the
\* longest the one that starts earliest in a, and of those earliest in b.
\* <<alo, blo, 0>> when nothing matches.
FindLongestMatch(a, b, alo, ahi, blo, bhi) ==
    LET Blocks == {t \in (alo..ahi) \X (blo..bhi) \X (1..Max(ahi - alo, 1)) :
                       /\ t[1] + t[3] <= ahi
                       /\ t[2] + t[3] <= bhi
                       /\ \A d \in 0..(t[3] - 1) : a[t[1] + d + 1] = b[t[2] + d + 1]}
    IN IF Blocks = {} THEN <<alo, blo, 0>>
       ELSE CHOOSE t \in Blocks :
                \A u \in Blocks :
                    \/ t[3] > u[3]
                    \/ t[3] = u[3] /\ t[1] < u[1]
                    \/ t[3] = u[3] /\ t[1] = u[1] /\ t[2] <= u[2]

RECURSIVE MatchingBlocks(_, _, _, _, _, _)
\* SequenceMatcher.get_matching_blocks: the longest match of the range, then
\* the same to its left and to its right, in ascending order.
MatchingBlocks(a, b, alo, ahi, blo, bhi) ==
    LET m == FindLongestMatch(a, b, alo, ahi, blo, bhi)
    IN IF m[3] = 0 THEN <<>>
       ELSE MatchingBlocks(a, b, alo, m[1], blo, m[2])
            \o <<m>>
            \o MatchingBlocks(a, b, m[1] + m[3], ahi, m[2] + m[3], bhi)

RECURSIVE OpcodesFrom(_, _, _)
\* get_opcodes / get_grouped_opcodes(0): one group per non-empty gap between
\* consecutive matching blocks, <<i1, i2, j1, j2>> with a[i1:i2] replaced by
\* b[j1:j2].  `blocks` ends with the sentinel <<Len(a), Len(b), 0>>.
OpcodesFrom(blocks, i, j) ==
    IF blocks = <<>> THEN <<>>
    ELSE LET m == Head(blocks)
             rest == OpcodesFrom(Tail(blocks), m[1] + m[3], m[2] + m[3])
         IN IF i < m[1] \/ j < m[2] THEN <<<<i, m[1], j, m[2]>>>> \o rest
            ELSE rest

Opcodes(a, b) ==
    OpcodesFrom(Append(MatchingBlocks(a, b, 0, Len(a), 0, Len(b)),
                       <<Len(a), Len(b), 0>>), 0, 0)

\* difflib._format_range_unified(start, stop)
FormatRangeUnified(start, stop) ==
    LET length == stop - start
        beginning == start + 1
    IN IF length = 1 THEN <<ToString(beginning)>>
       ELSE IF length = 0 THEN <<ToString(beginning - 1), ",", ToString(length)>>
       ELSE <<ToString(beginning), ",", ToString(length)>>

\* The lines one group yields: the hunk header, the removed lines of a with
\* "-" in front, then the added lines of b with "+" in front.
HunkLines(a, b, g) ==
    <<(<<"@", "@", SP, "-">> \o FormatRangeUnified(g[1], g[2])
        \o <<SP, "+">> \o FormatRangeUnified(g[3], g[4])
        \o <<SP, "@", "@", NL>>)>>
    \o [k \in 1..(g[2] - g[1]) |-> <<"-">> \o a[g[1] + k]]
    \o [k \in 1..(g[4] - g[3]) |-> <<"+">> \o b[g[3] + k]]

UnifiedDiff(a, b) ==
    LET groups == Opcodes(a, b)
    IN IF groups = <<>> THEN <<>>
       ELSE << <<"-", "-", "-", SP, NL>>, <<"+", "+", "+", SP, NL>> >>
            \o Concat([k \in 1..Len(groups) |-> HunkLines(a, b, groups[k])])

-----------------------------------------------------------------------------
(* _findNewLinesAndDeletedIndices                                          *)

\* Mutant of ScanLine: a removed line records the old-file counter but does
\* not advance it.
ScanLineNoAdvance(st, line) ==
    LET line_elements == SplitWS(line)
    IN IF line_elements[1] = <<"@", "@">>
       THEN [st EXCEPT
               !.file1_index = ParseInt(SliceFrom(SplitOn(line_elements[2], ",")[1], 1)),
               !.file2_index = ParseInt(SliceFrom(SplitOn(line_elements[3], ",")[1], 1))]
       ELSE IF line_elements[1][1] = "+"
       THEN [st EXCEPT
               !.new_lines = Append(@, SliceDropLast(line, 1, 2)),
               !.new_line_nums = Append(@, st.file2_index),
               !.file2_index = @ + 1]
       ELSE IF line_elements[1][1] = "-"
       THEN [st EXCEPT !.deleted_line_nums = Append(@, st.file1_index)]
       ELSE st

\* One pass of the loop body over a line of the diff.  st holds the three
\* result lists and the two running line counters.
ScanLine(st, line) ==
    LET line_elements == SplitWS(line)
    IN IF line_elements[1] = <<"@", "@">>
       THEN [st EXCEPT
               !.file1_index = ParseInt(SliceFrom(SplitOn(line_elements[2], ",")[1], 1)),
               !.file2_index = ParseInt(SliceFrom(SplitOn(line_elements[3], ",")[1], 1))]
       ELSE IF line_elements[1][1] = "+"
       THEN [st EXCEPT
               !.new_lines = Append(@, SliceDropLast(line, 1, 2)),
               !.new_line_nums = Append(@, st.file2_index),
               !.file2_index = @ + 1]
       ELSE IF line_elements[1][1] = "-"
       THEN [st EXCEPT
               !.deleted_line_nums = Append(@, st.file1_index),
               !.file1_index = @ + 1]
       ELSE st

RECURSIVE ScanDiff(_, _)
ScanDiff(st, udiff) ==
    IF udiff = <<>> THEN st ELSE ScanDiff(ScanLine(st, Head(udiff)), Tail(udiff))

\* The three results for the files f1 and f2 (the counters hold 0 until the
\* first hunk header sets them; the diff always starts with one).
FindNewLinesAndDeletedIndices(f1, f2) ==
    LET udiff == UnifiedDiff(f1, f2)
        st == ScanDiff([new_lines |-> <<>>, new_line_nums |-> <<>>,
                        deleted_line_nums |-> <<>>,
                        file1_index |-> 0, file2_index |-> 0],
                       SliceFrom(udiff, 2))
    IN <<st.new_lines, st.new_line_nums, st.deleted_line_nums>>

-----------------------------------------------------------------------------
(* The diff engine as a state machine: two files, then one call.           *)

IdleDiff ==
    /\ file1 = <<>>
    /\ file2 = <<>>
    /\ new_lines = <<>>
    /\ new_line_nums = <<>>
    /\ deleted_line_nums = <<>>
    /\ pcDiff = "idle"

IdleBuild ==
    /\ newLines = <<>>
    /\ createdBy = 1
    /\ idStart = 1
    /\ linkageMembers = <<>>
    /\ allLinkages = <<>>
    /\ pcBuild = "idle"

IdleAttach ==
    /\ databases = <<>>
    /\ attached_names = <<>>
    /\ conAttached = <<>>
    /\ warned = FALSE
    /\ pcAttach = "idle"

IdleIngest ==
    /\ priorFile = <<>>
    /\ AllTracklets = <<>>
    /\ TrackletMembers = <<>>
    /\ lineIds = <<>>
    /\ stage = 0
    /\ ingestResult = "idle"

IdleSchema ==
    /\ schemaArgs = << <<>>, <<>> >>
    /\ schemaKind = "none"
    /\ dbTables = {}
    /\ dbViews = {}
    /\ pcSchema = "idle"

IdleRead ==
    /\ readFile = <<>>
    /\ readOffset = 0
    /\ chunksize = 1
    /\ readKind = "none"
    /\ readMembers = <<>>
    /\ pcRead = "idle"

InitDiff ==
    /\ IdleSchema
    /\ IdleRead
    /\ IdleBuild
    /\ IdleAttach
    /\ IdleIngest
    /\ file1 \in SeqsUpTo(DiffLines, MaxOldLen)
    /\ file2 \in SeqsUpTo(DiffLines, MaxNewLen)
    /\ new_lines = <<>>
    /\ new_line_nums = <<>>
    /\ deleted_line_nums = <<>>
    /\ pcDiff = "ready"

CallFindNewLinesAndDeletedIndices ==
    /\ pcDiff = "ready"
    /\ LET r == FindNewLinesAndDeletedIndices(file1, file2)
       IN /\ new_lines' = r[1]
          /\ new_line_nums' = r[2]
          /\ deleted_line_nums' = r[3]
    /\ pcDiff' = "done"
    /\ UNCHANGED <<file1, file2, buildVars, attachVars, ingestVars, schemaVars, readVars>>

NextDiff == CallFindNewLinesAndDeletedIndices

SpecDiff == InitDiff /\ [][NextDiff]_vars

-----------------------------------------------------------------------------
(* Properties of the diff engine.                                          *)

\* file2 is file1 with zero or more lines appended and none removed.
IsAppended(f1, f2) == Len(f1) <= Len(f2) /\ SubSeq(f2, 1, Len(f1)) = f1

\* The text of a file line with only its trailing newline removed.
WithoutNewline(line) ==
    IF line # <<>> /\ line[Len(line)] = NL THEN SubSeq(line, 1, Len(line) - 1) ELSE line

\* f with the lines at the positions in P taken out.
RECURSIVE WithoutPositions(_, _)
WithoutPositions(f, P) ==
    IF f = <<>> THEN <<>>
    ELSE LET init == WithoutPositions(SubSeq(f, 1, Len(f) - 1), P)
         IN IF Len(f) \in P THEN init ELSE Append(init, f[Len(f)])

\* f2 is f1 with one or more lines removed and none added.
IsRemoved(f1, f2) ==
    /\ Len(f2) < Len(f1)
    /\ \E P \in SUBSET (1..Len(f1)) : WithoutPositions(f1, P) = f2

IsAscending(s) == \A k \in 1..(Len(s) - 1) : s[k] < s[k + 1]

Range(s) == {s[k] : k \in 1..Len(s)}

\* The line is written like "7 8 9\n": no blank before the newline.
EndsWithMember(line) == Len(line) >= 2 /\ line[Len(line)] = NL /\ line[Len(line) - 1] # SP

\* C1: when file2 is file1 with zero or more lines appended, the call reports
\* no deleted line number and, as added lines, exactly the appended lines in
\* order, each with only its trailing newline removed; for identical files
\* all three results are empty.  (Stated for appended lines written like the
\* claim's own example "7 8 9\n", the newline right after the last member.)
C1_AppendedLinesReported ==
    (/\ pcDiff = "done"
     /\ IsAppended(file1, file2)
     /\ \A k \in (Len(file1) + 1)..Len(file2) : EndsWithMember(file2[k])) =>
        /\ deleted_line_nums = <<>>
        /\ new_lines = [k \in 1..(Len(file2) - Len(file1)) |->
                           WithoutNewline(file2[Len(file1) + k])]
        /\ (file1 = file2 => new_lines = <<>> /\ new_line_nums = <<>>)

\* C2: when file2 is file1 with one or more lines removed and none added,
\* the call reports no added line and no added line number, and the deleted
\* line numbers are ascending positions of file1 whose removal leaves file2.
C2_RemovedLinesReported ==
    (pcDiff = "done" /\ IsRemoved(file1, file2)) =>
        /\ new_lines = <<>>
        /\ new_line_nums = <<>>
        /\ IsAscending(deleted_line_nums)
        /\ Range(deleted_line_nums) \subseteq 1..Len(file1)
        /\ WithoutPositions(file1, Range(deleted_line_nums)) = file2

IsPrefixOf(p, t) == Len(p) <= Len(t) /\ SubSeq(t, 1, Len(p)) = p

\* C12: whatever the number of hunks, the i-th added line is reported with
\* the 1-based position it has in the new file and every deleted line with
\* the 1-based position it has in the old file: both number sequences are
\* strictly ascending, each added entry is taken from the new file's line at
\* its reported position, and taking the reported positions out of the old
\* file and out of the new file leaves the same sequence of lines.
C12_LineNumbersArePositions ==
    pcDiff = "done" =>
        /\ Len(new_line_nums) = Len(new_lines)
        /\ IsAscending(new_line_nums)
        /\ IsAscending(deleted_line_nums)
        /\ Range(new_line_nums) \subseteq 1..Len(file2)
        /\ Range(deleted_line_nums) \subseteq 1..Len(file1)
        /\ \A i \in 1..Len(new_lines) : IsPrefixOf(new_lines[i], file2[new_line_nums[i]])
        /\ WithoutPositions(file1, Range(deleted_line_nums))
               = WithoutPositions(file2, Range(new_line_nums))

\* Three hunks: two separate removals and one addition.
C12_Witness ==
    /\ pcDiff = "done"
    /\ file1 = <<LineA, LineC, LineA, LineC>>
    /\ file2 = <<LineC, LineC, LineB>>
    /\ deleted_line_nums = <<1, 3>>
    /\ new_line_nums = <<3>>

-----------------------------------------------------------------------------
(* _makeNewLinkageDataFrames                                               *)

\* Mutant of Arange: the IDs start one too high.
ArangeOffByOne(start, stop) == [k \in 1..(stop - start) |-> start + k]

\* Mutant of Arange: a negative start is taken as 0.
ArangeClipped(start, stop) == [k \in 1..(stop - start) |-> Max(start, 0) + k - 1]

\* Mutant of Arange: the start is ignored, every batch is numbered from 1.
ArangeIgnoringStart(start, stop) == [k \in 1..(stop - start) |-> k]

\* np.arange(start, stop): start, start + 1, ..., stop - 1.
Arange(start, stop) == [k \in 1..(stop - start) |-> start + k - 1]

\* DataFrame(rows, index=ids).stack(): one row per cell, line by line and
\* within a line from left to right; the padding of the shorter lines is
\* left out, an empty token is a cell like any other.
Stack(rows, ids) ==
    Concat([i \in 1..Len(rows) |->
               [k \in 1..Len(rows[i]) |-> [linkageId |-> ids[i], diaId |-> rows[i][k]]]])

\* Mutant of DropEmpty: the rows with an empty token stay.
DropNothing(rows) == rows

\* replace("", nan) followed by dropna(): the rows with an empty token go.
DropEmpty(rows) == SelectSeq(rows, LAMBDA r : r.diaId # <<>>)

RECURSIVE Unique(_)
\* Series.unique(): the distinct values in order of first appearance.
Unique(s) ==
    IF s = <<>> THEN <<>>
    ELSE LET init == Unique(SubSeq(s, 1, Len(s) - 1))
             last == s[Len(s)]
         IN IF \E k \in 1..Len(init) : init[k] = last THEN init ELSE Append(init, last)

RECURSIVE SortAsc(_)
\* The elements of a finite set of integers in ascending order.
SortAsc(S) ==
    IF S = {} THEN <<>>
    ELSE LET m == CHOOSE x \in S : \A y \in S : x <= y
         IN <<m>> \o SortAsc(S \ {m})

CountOf(s, v) == Cardinality({k \in 1..Len(s) : s[k] = v})

\* Mutant of ValueCountsSortIndex: value_counts() without sort_index(), the
\* counts listed from the most frequent value to the least.
ValueCountsUnsorted(s) ==
    LET keys == {s[k] : k \in 1..Len(s)}
        neg == SortAsc({0 - (CountOf(s, v) * (Len(s) + 1)) + (CHOOSE r \in 0..Len(s) :
                   r = Cardinality({w \in keys : w < v})) : v \in keys})
    IN [k \in 1..Len(neg) |-> ((0 - neg[k]) + Len(s)) \div (Len(s) + 1)]

\* Series.value_counts().sort_index().values: the number of occurrences of
\* each distinct value, listed by ascending value.
ValueCountsSortIndex(s) ==
    LET keys == SortAsc({s[k] : k \in 1..Len(s)})
    IN [k \in 1..Len(keys) |-> CountOf(s, keys[k])]

\* Mutant of Zeros: the column is filled with ones.
ZerosAsOnes(n) == [k \in 1..n |-> 1]

\* np.zeros(n, dtype=int)
Zeros(n) == [k \in 1..n |-> 0]

\* np.ones(n, dtype=int)
Ones(n) == [k \in 1..n |-> 1]

\* The two relations for a batch of lines: <<linkageMembers, allLinkages>>.
\* The numMembers column is assigned by position to the rows of unique().
MakeNewLinkageDataFrames(lines, by, start) ==
    LET ids == Arange(start, start + Len(lines))
        split == [i \in 1..Len(lines) |-> SplitOn(lines[i], SP)]
        members == DropEmpty(Stack(split, ids))
        idColumn == [k \in 1..Len(members) |-> members[k].linkageId]
        uniq == Unique(idColumn)
        counts == ValueCountsSortIndex(idColumn)
        createdByColumn == [k \in 1..Len(uniq) |-> Ones(Len(uniq))[k] * by]
        deletedByColumn == Zeros(Len(uniq))
        linkages == [k \in 1..Len(uniq) |->
                        [linkageId |-> uniq[k], numMembers |-> counts[k],
                         createdBy |-> createdByColumn[k],
                         deletedBy |-> deletedByColumn[k]]]
    IN <<members, linkages>>

-----------------------------------------------------------------------------
(* The relation builder as a state machine: a batch, then one call.        *)

\* Lines as the builder receives them (no newline): tokens separated by one
\* space, by two, with a trailing space, with a leading space, blank, empty.
BuildLines == { <<"7", SP, "8">>, <<"7", SP, SP, "8", SP>>, <<SP, "7">>,
                <<"9">>, <<SP>>, <<>> }

StageTags == 1..2

InitBuild ==
    /\ IdleSchema
    /\ IdleRead
    /\ IdleDiff
    /\ IdleAttach
    /\ IdleIngest
    /\ newLines \in NonEmptySeqsUpTo(BuildLines, MaxBatch)
    /\ createdBy \in StageTags
    /\ idStart \in (0 - 2)..MaxIdStart
    /\ linkageMembers = <<>>
    /\ allLinkages = <<>>
    /\ pcBuild = "ready"

\* The function has no raise of its own: every call returns.
CallMakeNewLinkageDataFrames ==
    /\ pcBuild = "ready"
    /\ LET r == MakeNewLinkageDataFrames(newLines, createdBy, idStart)
       IN /\ linkageMembers' = r[1]
          /\ allLinkages' = r[2]
    /\ pcBuild' = "done"
    /\ UNCHANGED <<newLines, createdBy, idStart, diffVars, attachVars, ingestVars,
                   schemaVars, readVars>>

NextBuild == CallMakeNewLinkageDataFrames

SpecBuild == InitBuild /\ [][NextBuild]_vars

-----------------------------------------------------------------------------
(* Properties of the relation builder.                                     *)

\* The member tokens of a line: its maximal runs of non-blank characters.
TokensOf(line) == SplitWS(line)

\* The detection IDs of the member rows of linkage id, in row order.
MembersOf(id) ==
    LET rows == SelectSeq(linkageMembers, LAMBDA r : r.linkageId = id)
    IN [k \in 1..Len(rows) |-> rows[k].diaId]

SummaryRowsOf(id) == {k \in 1..Len(allLinkages) : allLinkages[k].linkageId = id}

MemberIds == {linkageMembers[k].linkageId : k \in 1..Len(linkageMembers)}
SummaryIds == {allLinkages[k].linkageId : k \in 1..Len(allLinkages)}

\* C3: the i-th line (from 0) gets the linkage ID idStart + i: the member
\* rows carrying idStart + i hold exactly the tokens of that line, in order,
\* no member row carries any other ID, and the row IDs never decrease.
C3_IdsConsecutiveFromIdStart ==
    pcBuild = "done" =>
        /\ \A i \in 1..Len(newLines) : MembersOf(idStart + i - 1) = TokensOf(newLines[i])
        /\ MemberIds \subseteq idStart..(idStart + Len(newLines) - 1)
        /\ \A k \in 1..(Len(linkageMembers) - 1) :
               linkageMembers[k].linkageId <= linkageMembers[k + 1].linkageId

C3_Witness ==
    /\ pcBuild = "done"
    /\ idStart = 2
    /\ Len(newLines) = 3
    /\ MembersOf(2) = << <<"9">> >>
    /\ MembersOf(4) = << <<"7">>, <<"8">> >>

\* C4: the summary relation has exactly one row for each linkage ID of the
\* members relation and none for any other ID, and the row's numMembers is
\* the number of member rows carrying that ID.
C4_SummaryMatchesMembers ==
    pcBuild = "done" =>
        /\ SummaryIds = MemberIds
        /\ \A id \in MemberIds : Cardinality(SummaryRowsOf(id)) = 1
        /\ \A k \in 1..Len(allLinkages) :
               allLinkages[k].numMembers = Len(MembersOf(allLinkages[k].linkageId))

C4_Witness ==
    /\ pcBuild = "done"
    /\ Len(allLinkages) = 2
    /\ allLinkages[1].numMembers = 2
    /\ allLinkages[2].numMembers = 1

\* C5: a line with no member token (empty or blank) still gets a summary row
\* for its linkage ID, with numMembers = 0, and no member row.
C5_ZeroMemberLineKept ==
    pcBuild = "done" =>
        \A i \in 1..Len(newLines) :
            TokensOf(newLines[i]) = <<>> =>
                /\ MembersOf(idStart + i - 1) = <<>>
                /\ \E k \in SummaryRowsOf(idStart + i - 1) : allLinkages[k].numMembers = 0

RECURSIVE JoinSP(_)
\* " ".join(tokens)
JoinSP(tokens) ==
    IF tokens = <<>> THEN <<>>
    ELSE IF Len(tokens) = 1 THEN tokens[1]
    ELSE tokens[1] \o <<SP>> \o JoinSP(Tail(tokens))

RECURSIVE CollapseRuns(_)
\* Every run of consecutive spaces collapsed to one space.
CollapseRuns(s) ==
    IF Len(s) < 2 THEN s
    ELSE IF s[1] = SP /\ s[2] = SP THEN CollapseRuns(Tail(s))
    ELSE <<s[1]>> \o CollapseRuns(Tail(s))

RECURSIVE StripTrailing(_)
StripTrailing(s) ==
    IF s # <<>> /\ s[Len(s)] = SP THEN StripTrailing(SubSeq(s, 1, Len(s) - 1)) ELSE s

RECURSIVE StripLeading(_)
StripLeading(s) == IF s # <<>> /\ s[1] = SP THEN StripLeading(Tail(s)) ELSE s

\* The line rebuilt from the member rows of the i-th line's linkage ID.
Rebuilt(i) == JoinSP(MembersOf(idStart + i - 1))

\* C6 as stated: the rebuilt line is the original line with its runs of
\* spaces collapsed and its trailing spaces removed, and no member row holds
\* an empty token.
C6_RoundTripConsecutiveTrailing ==
    pcBuild = "done" =>
        /\ \A i \in 1..Len(newLines) :
               Rebuilt(i) = StripTrailing(CollapseRuns(newLines[i]))
        /\ \A k \in 1..Len(linkageMembers) : linkageMembers[k].diaId # <<>>

\* C6 (amended): the rebuilt line is the original line with its runs of
\* spaces collapsed and its leading and trailing spaces removed; tokens keep
\* their order and no member row holds an empty token.
C6_RoundTrip ==
    pcBuild = "done" =>
        /\ \A i \in 1..Len(newLines) :
               Rebuilt(i) = StripLeading(StripTrailing(CollapseRuns(newLines[i])))
        /\ \A k \in 1..Len(linkageMembers) : linkageMembers[k].diaId # <<>>

C6_Witness ==
    /\ pcBuild = "done"
    /\ newLines = << <<"7", SP, SP, "8", SP>>, <<SP, "7">> >>
    /\ Rebuilt(1) = <<"7", SP, "8">>
    /\ Rebuilt(2) = <<"7">>

\* C7 as stated: a call with a negative idStart fails and returns no
\* relations.
C7_NegativeIdStartRejected ==
    (pcBuild \in {"done", "failed"} /\ idStart < 0) =>
        pcBuild = "failed" /\ linkageMembers = <<>> /\ allLinkages = <<>>

\* C7 (amended): a call with a negative idStart returns like any other: the
\* i-th line (from 0) gets the ID idStart + i, negative IDs included, and
\* the summary rows are those of the lines that have a member token.
C7_NegativeIdStartAssigned ==
    (pcBuild \in {"done", "failed"} /\ idStart < 0) =>
        /\ pcBuild = "done"
        /\ \A i \in 1..Len(newLines) : MembersOf(idStart + i - 1) = TokensOf(newLines[i])
        /\ SummaryIds = {idStart + i - 1 : i \in {j \in 1..Len(newLines) :
                                                    TokensOf(newLines[j]) # <<>>}}

C7_Witness ==
    /\ pcBuild = "done"
    /\ idStart = 0 - 2
    /\ Len(newLines) = 3
    /\ SummaryIds = {0 - 2, 0 - 1, 0}

-----------------------------------------------------------------------------
(* attachDatabases                                                         *)

\* The most databases that are attached (io.py: len(databases) > 10).
MaxAttached == 10

\* Mutant of Truncate: one database more is kept.
TruncateOneMore(dbs) ==
    IF Len(dbs) > MaxAttached THEN SubSeq(dbs, 1, MaxAttached + 1) ELSE dbs

\* databases[0:10] when more than ten are given, databases otherwise.
Truncate(dbs) == IF Len(dbs) > MaxAttached THEN SubSeq(dbs, 1, MaxAttached) ELSE dbs

\* "db%s" % i
DbName(i) == "db" \o ToString(i)

\* The returned names, the ATTACH statements run, and whether the warning
\* was printed.
AttachDatabases(dbs) ==
    LET kept == Truncate(dbs)
    IN [attached_names |-> [k \in 1..Len(kept) |-> DbName(k - 1)],
        statements |-> [k \in 1..Len(kept) |-> <<DbName(k - 1), kept[k]>>],
        warned |-> Len(dbs) > MaxAttached]

Windows == {"w1.db", "w2.db"}

InitAttach ==
    /\ IdleSchema
    /\ IdleRead
    /\ IdleDiff
    /\ IdleBuild
    /\ IdleIngest
    /\ databases \in SeqsUpTo(Windows, MaxRequested)
    /\ attached_names = <<>>
    /\ conAttached = <<>>
    /\ warned = FALSE
    /\ pcAttach = "ready"

\* The function has no raise of its own, and the names db0, db1, ... are
\* distinct, so no ATTACH fails for the number of databases.
CallAttachDatabases ==
    /\ pcAttach = "ready"
    /\ LET r == AttachDatabases(databases)
       IN /\ attached_names' = r.attached_names
          /\ conAttached' = r.statements
          /\ warned' = r.warned
    /\ pcAttach' = "done"
    /\ UNCHANGED <<databases, diffVars, buildVars, ingestVars, schemaVars, readVars>>

NextAttach == CallAttachDatabases

SpecAttach == InitAttach /\ [][NextAttach]_vars

-----------------------------------------------------------------------------
(* Properties of attachDatabases.                                          *)

ExpectedNames == <<"db0", "db1", "db2", "db3", "db4", "db5", "db6", "db7", "db8", "db9">>

\* C8: with k databases requested the call never fails; it attaches and
\* returns exactly min(k, 10) names, db0 .. db(min(k,10)-1), bound in order
\* to the first min(k, 10) requested databases, and warns exactly when k > 10.
C8_AttachTruncatesAtTen ==
    pcAttach \in {"done", "failed"} =>
        /\ pcAttach = "done"
        /\ Len(attached_names) = Min(Len(databases), 10)
        /\ attached_names = SubSeq(ExpectedNames, 1, Min(Len(databases), 10))
        /\ Len(conAttached) = Len(attached_names)
        /\ \A k \in 1..Len(conAttached) : conAttached[k] = <<ExpectedNames[k], databases[k]>>
        /\ warned = (Len(databases) > 10)

C8_Witness ==
    /\ pcAttach = "done"
    /\ Len(databases) = 12
    /\ Len(attached_names) = 10
    /\ attached_names[10] = "db9"
    /\ warned

-----------------------------------------------------------------------------
(* Stage ingestion into the tracklet ledger: the diff of the prior and the *)
(* new stage output, the relations of the added lines with idStart one     *)
(* above the ledger's largest ID, their append, and the marking of the     *)
(* rows of the removed lines.                                              *)

\* The stage tags of the tracklet ledger: 1 .. 4.
NumTrackletStages == 4

IngestLines == {LineA, LineC}

MaxId(rows) ==
    IF rows = <<>> THEN 0
    ELSE CHOOSE m \in {rows[k].linkageId : k \in 1..Len(rows)} :
             \A k \in 1..Len(rows) : rows[k].linkageId <= m

\* deletedBy := tag on the live rows whose ID is in ids.
MarkDeleted(rows, ids, tag) ==
    [k \in 1..Len(rows) |->
        IF rows[k].linkageId \in ids /\ rows[k].deletedBy = 0
        THEN [rows[k] EXCEPT !.deletedBy = tag]
        ELSE rows[k]]

\* The row IDs of the lines of the new file: an added line has the ID the
\* builder gave it if it got a summary row (0 if not), every other line
\* keeps the ID of the surviving line of the prior file it is.
NewLineIds(newLen, addedNums, deletedNums, start, summary) ==
    LET survivors == WithoutPositions(lineIds, Range(deletedNums))
        ids == {summary[k].linkageId : k \in 1..Len(summary)}
        AddedAt(p) == {k \in 1..Len(addedNums) : addedNums[k] = p}
        Before(p) == Cardinality({k \in 1..Len(addedNums) : addedNums[k] < p})
    IN [p \in 1..newLen |->
           IF AddedAt(p) # {}
           THEN LET id == start + (CHOOSE k \in AddedAt(p) : TRUE) - 1
                IN IF id \in ids THEN id ELSE 0
           ELSE survivors[p - Before(p)]]

InitIngest ==
    /\ IdleSchema
    /\ IdleRead
    /\ IdleDiff
    /\ IdleBuild
    /\ IdleAttach
    /\ priorFile = <<>>
    /\ AllTracklets = <<>>
    /\ TrackletMembers = <<>>
    /\ lineIds = <<>>
    /\ stage = 0
    /\ ingestResult = "none"

\* ingestStageOutput with the next stage tag and the stage's output file.
\* A removed line that has no row in the ledger makes the marked-row count
\* differ from the deleted count: the call fails and writes nothing.
IngestStageOutput(newFile) ==
    /\ stage < NumTrackletStages
    /\ LET tag == stage + 1
           d == FindNewLinesAndDeletedIndices(priorFile, newFile)
           start == MaxId(AllTracklets) + 1
           rel == IF d[1] = <<>> THEN << <<>>, <<>> >>
                  ELSE MakeNewLinkageDataFrames(d[1], tag, start)
           deletedIds == {lineIds[n] : n \in Range(d[3])}
       IN IF 0 \in deletedIds
          THEN /\ ingestResult' = "IdConsistencyError"
               /\ UNCHANGED <<priorFile, AllTracklets, TrackletMembers, lineIds, stage>>
          ELSE /\ AllTracklets' = MarkDeleted(AllTracklets, deletedIds, tag) \o rel[2]
               /\ TrackletMembers' = TrackletMembers \o rel[1]
               /\ lineIds' = NewLineIds(Len(newFile), d[2], d[3], start, rel[2])
               /\ priorFile' = newFile
               /\ stage' = tag
               /\ ingestResult' = "ok"
    /\ UNCHANGED <<diffVars, buildVars, attachVars, schemaVars, readVars>>

NextIngest == \E newFile \in SeqsUpTo(IngestLines, MaxIngestLen) : IngestStageOutput(newFile)

SpecIngest == InitIngest /\ [][NextIngest]_vars

Init == InitIngest
Next == NextIngest
Spec == SpecIngest

-----------------------------------------------------------------------------
(* Properties of the ledger over a sequence of stage ingestions.           *)

LedgerIds == {AllTracklets[k].linkageId : k \in 1..Len(AllTracklets)}

LedgerStep ==
    /\ Len(AllTracklets') >= Len(AllTracklets)
    /\ \A k \in 1..Len(AllTracklets) :
           /\ AllTracklets'[k].linkageId = AllTracklets[k].linkageId
           /\ AllTracklets'[k].createdBy = AllTracklets[k].createdBy
           /\ \/ AllTracklets'[k].deletedBy = AllTracklets[k].deletedBy
              \/ AllTracklets[k].deletedBy = 0 /\ AllTracklets'[k].deletedBy > 0
    /\ \A k \in (Len(AllTracklets) + 1)..Len(AllTracklets') :
           AllTracklets'[k].deletedBy = 0

C10_LedgerAppendMarkOnly == [][LedgerStep]_vars

C10_Witness ==
    /\ stage = 3
    /\ Len(AllTracklets) = 2
    /\ AllTracklets[1].createdBy = 1 /\ AllTracklets[1].deletedBy = 2
    /\ AllTracklets[2].createdBy = 3 /\ AllTracklets[2].deletedBy = 0

-----------------------------------------------------------------------------
(* buildTrackletDatabase and buildTrackDatabase                            *)

\* The names the module binds at import: os, numpy as np, pandas as pd,
\* sqlite3, difflib and Config.
ModuleNames == {"os", "np", "pd", "sqlite3", "difflib", "Config"}

\* The tables and views the statements of buildTrackletDatabase create.  A
\* view selects the rows with createdBy in its createdBy set or deletedBy in
\* its deletedBy set.
TrackletTables == {"DiaSources", "AllTracklets", "TrackletMembers"}

TrackletViews ==
    { [name |-> "Tracklets", createdBy |-> {1}, deletedBy |-> {}],
      [name |-> "CollapsedTracklets", createdBy |-> {2}, deletedBy |-> {2}],
      [name |-> "PurifiedTracklets", createdBy |-> {3}, deletedBy |-> {3}],
      [name |-> "FinalTracklets", createdBy |-> {4}, deletedBy |-> {4}] }

\* The tables and views the statements of buildTrackDatabase create.
TrackTables == {"AllTracks", "TrackMembers"}

TrackViews ==
    { [name |-> "Tracks", createdBy |-> {5}, deletedBy |-> {}],
      [name |-> "FinalTracks", createdBy |-> {6}, deletedBy |-> {6}] }

\* con = sql.connect(database): the name sql is looked up among the module's
\* names; when it is not bound the call raises NameError and no statement
\* after it runs.
BuildDatabase(tables, views) ==
    IF "sql" \in ModuleNames
    THEN [status |-> "done", tables |-> tables, views |-> views]
    ELSE [status |-> "NameError", tables |-> {}, views |-> {}]

BuildTrackletDatabase(database, outDir) == BuildDatabase(TrackletTables, TrackletViews)

BuildTrackDatabase(database, outDir) == BuildDatabase(TrackTables, TrackViews)

DatabaseNames == NonEmptySeqsUpTo({"a", "b"}, MaxNameLen)
OutDirs == {".", "out", "/data"}

InitSchema ==
    /\ IdleDiff
    /\ IdleBuild
    /\ IdleAttach
    /\ IdleIngest
    /\ IdleRead
    /\ schemaArgs \in DatabaseNames \X OutDirs
    /\ schemaKind = "none"
    /\ dbTables = {}
    /\ dbViews = {}
    /\ pcSchema = "ready"

CallBuildTrackletDatabase ==
    /\ pcSchema = "ready"
    /\ LET r == BuildTrackletDatabase(schemaArgs[1], schemaArgs[2])
       IN /\ dbTables' = r.tables
          /\ dbViews' = r.views
          /\ pcSchema' = IF r.status = "done" THEN "done" ELSE "failed"
    /\ schemaKind' = "tracklet"
    /\ UNCHANGED <<schemaArgs, diffVars, buildVars, attachVars, ingestVars, readVars>>

CallBuildTrackDatabase ==
    /\ pcSchema = "ready"
    /\ LET r == BuildTrackDatabase(schemaArgs[1], schemaArgs[2])
       IN /\ dbTables' = r.tables
          /\ dbViews' = r.views
          /\ pcSchema' = IF r.status = "done" THEN "done" ELSE "failed"
    /\ schemaKind' = "track"
    /\ UNCHANGED <<schemaArgs, diffVars, buildVars, attachVars, ingestVars, readVars>>

NextSchema == CallBuildTrackletDatabase \/ CallBuildTrackDatabase

SpecSchema == InitSchema /\ [][NextSchema]_vars

-----------------------------------------------------------------------------
(* Properties of the database builds.                                      *)

StagesOf(kind) == IF kind = "tracklet" THEN 1..4 ELSE 5..6

HasCreatedView(N) == \E v \in dbViews : v.createdBy = {N} /\ v.deletedBy = {}
HasAffectedView(N) == \E v \in dbViews : v.createdBy = {N} /\ v.deletedBy = {N}

\* C11: after buildTrackletDatabase the database has, for every stage tag N
\* in 1..4, a view selecting exactly the rows with createdBy = N and a view
\* selecting exactly the rows with createdBy = N or deletedBy = N; after
\* buildTrackDatabase the same for N in 5..6.
C11_StageViewsExist ==
    pcSchema \in {"done", "failed"} =>
        /\ pcSchema = "done"
        /\ \A N \in StagesOf(schemaKind) : HasCreatedView(N) /\ HasAffectedView(N)

-----------------------------------------------------------------------------
(* readTracksIntoDatabase and readTrackletsIntoDatabase                    *)

\* The lines pd.read_csv hands over: no newline, detection IDs each followed
\* by a blank.
ReadLines == { <<"1", SP, "2", SP>>, <<"3", SP, "4", SP, "5", SP>> }

\* The parameters of the two functions.
TrackParams == {"trackFile", "con", "trackIdOffset", "chunksize"}
TrackletParams == {"trackletFile", "con", "trackletIdOffset", "chunksize"}

\* enumerate(pd.read_csv(..., chunksize=c)): chunk i (from 0) holds the lines
\* c*i + 1 .. c*(i + 1) of the file, the last chunk what is left.
NumChunks(n, c) == (n + c - 1) \div c

Chunk(lines, c, i) == SubSeq(lines, c * i + 1, Min(c * (i + 1), Len(lines)))

\* The body of the loop for chunk i: the IDs from np.arange, the split on
\* one blank, the stack and the removal of the empty tokens.
ReadChunk(chunk, offset, c, i) ==
    LET ids == Arange(offset + (c * i) + 1, Len(chunk) + offset + (c * i) + 1)
        split == [k \in 1..Len(chunk) |-> SplitOn(chunk[k], SP)]
    IN DropEmpty(Stack(split, ids))

\* The member rows appended to the members table over all chunks, in order.
ReadChunks(lines, offset, c) ==
    Concat([k \in 1..NumChunks(Len(lines), c) |->
               ReadChunk(Chunk(lines, c, k - 1), offset, c, k - 1)])

\* The loop header names the file by fileName: a name that is neither a
\* parameter of the function nor a name of the module raises NameError
\* before the first chunk is read.
ReadIntoDatabase(fileName, params, lines, offset, c) ==
    IF fileName \in params \cup ModuleNames
    THEN [status |-> "done", members |-> ReadChunks(lines, offset, c)]
    ELSE [status |-> "NameError", members |-> <<>>]

ReadTracksIntoDatabase(lines, offset, c) ==
    ReadIntoDatabase("trackFile", TrackParams, lines, offset, c)

ReadTrackletsIntoDatabase(lines, offset, c) ==
    ReadIntoDatabase("trackFile", TrackletParams, lines, offset, c)

InitRead ==
    /\ IdleDiff
    /\ IdleBuild
    /\ IdleAttach
    /\ IdleIngest
    /\ IdleSchema
    /\ readFile \in NonEmptySeqsUpTo(ReadLines, MaxReadLen)
    /\ readOffset \in 0..MaxOffset
    /\ chunksize \in 1..MaxChunk
    /\ readKind = "none"
    /\ readMembers = <<>>
    /\ pcRead = "ready"

CallReadTracksIntoDatabase ==
    /\ pcRead = "ready"
    /\ LET r == ReadTracksIntoDatabase(readFile, readOffset, chunksize)
       IN /\ readMembers' = r.members
          /\ pcRead' = IF r.status = "done" THEN "done" ELSE "failed"
    /\ readKind' = "track"
    /\ UNCHANGED <<readFile, readOffset, chunksize,
                   diffVars, buildVars, attachVars, ingestVars, schemaVars>>

CallReadTrackletsIntoDatabase ==
    /\ pcRead = "ready"
    /\ LET r == ReadTrackletsIntoDatabase(readFile, readOffset, chunksize)
       IN /\ readMembers' = r.members
          /\ pcRead' = IF r.status = "done" THEN "done" ELSE "failed"
    /\ readKind' = "tracklet"
    /\ UNCHANGED <<readFile, readOffset, chunksize,
                   diffVars, buildVars, attachVars, ingestVars, schemaVars>>

NextRead == CallReadTracksIntoDatabase \/ CallReadTrackletsIntoDatabase

SpecRead == InitRead /\ [][NextRead]_vars

-----------------------------------------------------------------------------
(* Properties of the chunked readers.                                      *)

\* The detection IDs of the member rows read for linkage id, in row order.
ReadMembersOf(id) ==
    LET rows == SelectSeq(readMembers, LAMBDA r : r.linkageId = id)
    IN [k \in 1..Len(rows) |-> rows[k].diaId]

ReadIds == {readMembers[k].linkageId : k \in 1..Len(readMembers)}

\* The j-th line of the file has the ID readOffset + j, no other ID is
\* assigned, and the rows are those of a read in one chunk.
ReadIdsFollowLines ==
    /\ \A j \in 1..Len(readFile) : ReadMembersOf(readOffset + j) = TokensOf(readFile[j])
    /\ ReadIds = (readOffset + 1)..(readOffset + Len(readFile))
    /\ readMembers = ReadChunks(readFile, readOffset, Len(readFile))

\* C13: for every chunk size, ID offset and file length, both readers give
\* the linkage on the j-th line of the file the ID offset + j, with no gap
\* and no overlap at the chunk boundaries, and the rows equal those of a
\* read in a single chunk.
C13_ChunkedIdsIndependentOfChunkSize ==
    pcRead \in {"done", "failed"} => pcRead = "done" /\ ReadIdsFollowLines

====
